---- MODULE Spec2Model ----
(***************************************************************************)
(* Resumable batch pipeline of the Spanish-Korean dictionary builders      *)
(* (google_translate_dictionary_builder.py, glosbe_dictionary_builder.py)  *)
(* and the rate limiter of GoogleTranslateClient.                          *)
(*                                                                         *)
(* Spec      runs of main(): load_progress, load_word_list, process_words  *)
(*           batch by batch with a thread pool, save_progress after each   *)
(*           batch, the final report and artifact; the process can be      *)
(*           killed at any point and started again.                        *)
(* SpecRate  concurrent callers of GoogleTranslateClient._rate_limit over  *)
(*           a discrete global clock.                                      *)
(* SpecRateGlosbe  the same for GlosbeClient._rate_limit, which has no     *)
(*           lock.                                                         *)
(* SpecThrottle  concurrent calls of GlosbeClient.get_translation that are *)
(*           answered with 429: _handle_rate_limit and the nested retry.   *)
(* SpecParse load_word_list on the raw lines of a word list file.          *)
(***************************************************************************)
EXTENDS Integers, Sequences, FiniteSets, TLC

VARIABLES
    \* ---- files on disk --------------------------------------------------
    word_list_file,     \* result of load_word_list: sequence of <<word, flags>>
    word_list_found,    \* FALSE: open(file_path) raises FileNotFoundError
    progress_json,      \* progress.json
    term_bank,          \* term_bank_spanish_korean_full.json
    problematic_txt,    \* debug_problematic_words.txt
    \* ---- the process ----------------------------------------------------
    builder,            \* "google" or "glosbe": which script is run
    run,                \* number of the current run of main()
    pc,                 \* position of the coordinating thread in main()
    translations,       \* DictionaryBuilder.translations
    processed_words,    \* DictionaryBuilder.processed_words
    problematic_words,  \* DictionaryBuilder.problematic_words
    results,            \* results of process_words / main
    words_to_process,   \* list handed to process_words by main
    i,                  \* loop index of process_words (0-based offset)
    futures,            \* future_to_word: word -> state of its future
    \* ---- observation (history) variables --------------------------------
    loaded,             \* processed/problematic sets right after load_progress
    dispatched,         \* words submitted to the pool in this run, in order
    fetch_count,        \* word -> number of process_word calls, all runs
    completed_keys,     \* words of every batch whose checkpoint was written
    saves,              \* save_progress calls completed in this run
    yomichan_calls,     \* save_yomichan calls completed in this run
    kills,              \* number of kills so far
    torn,               \* TRUE once a kill hit an open, unfinished save
    load_raised,        \* TRUE once load_progress raised
    outcome_of,         \* word -> how its process_word call of this run ended
    save_failed,        \* run in which save_progress last raised (0: never)
    report_calls,       \* save_problematic_words calls completed in this run
    summary,            \* the "BUILD COMPLETE" summary of this run
    \* ---- rate limiter (SpecRate, SpecRateGlosbe) ------------------------
    client,             \* "google" or "glosbe": whose _rate_limit is called
    now,                \* global clock, in ticks (50 ms Google, 500 ms Glosbe)
    lock,               \* holder of GoogleTranslateClient.lock
    last_request_time,  \* GoogleTranslateClient.last_request_time
    request_count,      \* GoogleTranslateClient.request_count
    rl_pc,              \* worker -> position inside _rate_limit
    count_read,         \* worker -> request_count as read by its "+= 1"
    requests_sent,      \* requests sent to the endpoint after _rate_limit
    current_time,       \* worker -> local current_time
    sleep_time,         \* worker -> local sleep_time (0: no sleep)
    grants,             \* times at which acquisitions were granted, in order
    \* ---- throttling recovery of GlosbeClient (SpecThrottle) -------------
    vpn_available,      \* GlosbeClient.vpn_available
    rate_limit_hits,    \* GlosbeClient.rate_limit_hits
    th_pc,              \* worker -> position in get_translation and below
    th_depth,           \* worker -> nested get_translation calls so far
    th_attempt,         \* worker -> attempt of the ladder in _handle_rate_limit
    th_switched,        \* worker -> _switch_vpn_location called by this handler
    th_result,          \* worker -> what its get_translation call returned
    th_waits,           \* worker -> the sleeps of its handler so far, in seconds
    th_probes,          \* worker -> probes its handler has sent so far
    \* ---- load_word_list on a raw file (SpecParse) -----------------------
    file_lines,         \* the lines of the word list file, as written
    unique_pairs,       \* what load_word_list returned
    lw_pc,              \* "open" before the call, "returned" after it
    \* ---- load_progress on a stored record (SpecLoad) --------------------
    data,               \* what json.load returned: the keys and their values
    ld_builder,         \* the fields of the builder load_progress assigns
    ld_pc,              \* "open" before the call, "returned" after it
    \* ---- getsentences of the Glosbe scraper (SpecScrape) ----------------
    options,            \* the globals set by checkflags
    count,              \* words of wordlist the loop has taken
    output_csv,         \* the rows appended to output.csv (header left out)
    savedwords,         \* local savedwords
    skipppedwords,      \* local skipppedwords
    sc_pc,              \* "loop", "completed", "crashed"
    \* ---- one call of GoogleTranslateClient.get_translation (SpecFetch) --
    gt_answers,         \* attempt -> what the request of that attempt ends in
    gt_attempt,         \* the loop variable attempt
    gt_requests,        \* requests the call has sent
    gt_result,          \* "pending", or what the call returned (or Raise)
    gt_cause            \* the kind of answer that ended the call

buildVars == <<word_list_file, word_list_found, progress_json, term_bank, problematic_txt,
               builder, run, pc, translations, processed_words,
               problematic_words, results, words_to_process, i, futures,
               loaded, dispatched, fetch_count, completed_keys, saves,
               yomichan_calls, kills, torn, load_raised, outcome_of,
               save_failed, report_calls, summary>>
rateVars == <<client, now, lock, last_request_time, request_count, rl_pc,
              count_read, requests_sent,
              current_time, sleep_time, grants>>
throttleVars == <<vpn_available, rate_limit_hits, th_pc, th_depth,
                  th_attempt, th_switched, th_result, th_waits, th_probes>>
parseVars == <<file_lines, unique_pairs, lw_pc>>
loadVars == <<data, ld_builder, ld_pc>>
scrapeVars == <<options, count, output_csv, savedwords, skipppedwords, sc_pc>>
fetchVars == <<gt_answers, gt_attempt, gt_requests, gt_result, gt_cause>>
vars == <<buildVars, rateVars, throttleVars, parseVars, loadVars, scrapeVars,
          fetchVars>>
\* what the actions of a run of main() leave alone, and what the actions of
\* the rate limiter leave alone
offBuild == <<rateVars, throttleVars, parseVars, loadVars, scrapeVars,
              fetchVars, word_list_found>>
\* observations that most actions of a run leave alone
notes == <<outcome_of, save_failed, report_calls, summary>>
offRate == <<buildVars, client, throttleVars, parseVars, loadVars, scrapeVars,
             fetchVars>>
\* what the actions of the throttling recovery and of the parser leave alone
offThrottle == <<buildVars, rateVars, parseVars, loadVars, scrapeVars,
                 fetchVars>>
offParse == <<buildVars, rateVars, throttleVars, loadVars, scrapeVars,
              fetchVars>>
offLoad == <<buildVars, rateVars, throttleVars, parseVars, scrapeVars,
             fetchVars>>
offScrape == <<buildVars, rateVars, throttleVars, parseVars, loadVars,
               fetchVars>>
offFetch == <<buildVars, rateVars, throttleVars, parseVars, loadVars,
              scrapeVars>>

----------------------------------------------------------------------------
(* Bounds *)

\* slice length of process_words (batch_size; 100 and 25 in the scripts)
batch_size == 2
\* runs of main() in one behaviour
MaxRuns == 2
\* pool threads calling _rate_limit, calls made in all, last clock value
NumWorkers == 2
MaxRequests == 3
MaxTime == 8

\* the words an input file can hold, and their metadata strings
Keys == {"casa", "agua", "xyz123"}
Flags == {"", "n"}
Builders == {"google", "glosbe"}

----------------------------------------------------------------------------
(* Helpers *)

Range(s) == {s[n] : n \in DOMAIN s}
Min(a, b) == IF a < b THEN a ELSE b
EmptyMap == [k \in {} |-> ""]
Put(f, k, v) == [x \in (DOMAIN f) \cup {k} |-> IF x = k THEN v ELSE f[x]]
WordsOf(pairs) == {pairs[n][1] : n \in DOMAIN pairs}
\* all sequences over S without repetition (what the duplicate removal of
\* load_word_list can return)
UniqueSeqs(S) ==
    UNION {{s \in [1..n -> S] : \A a, b \in 1..n : a # b => s[a] # s[b]}
           : n \in 0..Cardinality(S)}
\* the lists collected from the file with no duplicate removed
LoadedWords_with_repeats(S) ==
    UNION {[1..n -> S] : n \in 0..Cardinality(S)}
\* the words of unique_pairs, in file order
LoadedWords(S) == UniqueSeqs(S)
\* every order in which a set can be iterated
Orders(S) == {s \in UniqueSeqs(S) : Range(s) = S}

----------------------------------------------------------------------------
(* The connector: GoogleTranslateClient.get_translation, process_word *)

\* Python's None, kept apart from every string a server can send
None == "<None>"
\* a call that raised instead of returning
Raise == "<raise>"
\* texts found in data[0][0][0] (Google) or in a match (MyMemory)
RawTexts == {"ko", " ko ", " ", ""}
\* str.strip() on the texts above
Strip(t) == CASE t = " ko " -> "ko"
              [] t = " "    -> ""
              [] OTHER      -> t
\* Python truth value of an Optional[str]
Truthy(t) == t # None /\ t # ""

max_retries == 3
\* what one HTTP exchange of get_translation can end in
Responses ==
    {[kind |-> "429", text |-> ""],           \* status_code == 429
     [kind |-> "request_error", text |-> ""], \* RequestException, raise_for_status
     [kind |-> "parse_error", text |-> ""],   \* JSONDecodeError, IndexError, ...
     [kind |-> "no_data", text |-> ""],       \* empty data / data[0]
     [kind |-> "other_error", text |-> ""]}   \* an exception of another type
    \cup {[kind |-> "text", text |-> t] : t \in RawTexts}
ResponseSeqs == [1..max_retries -> Responses]

\* GoogleTranslateClient.get_translation: the for loop over the attempts,
\* rs[attempt + 1] being the answer to the request of that attempt
RECURSIVE get_translation_from(_, _)
get_translation_from(rs, attempt) ==
    IF attempt >= max_retries THEN None
    ELSE LET r == rs[attempt + 1] IN
         CASE r.kind = "429" -> get_translation_from(rs, attempt + 1)
           [] r.kind = "text" -> r.text
           [] r.kind = "no_data" -> None
           [] r.kind = "request_error" ->
                IF attempt < max_retries - 1
                THEN get_translation_from(rs, attempt + 1)
                ELSE None
           [] r.kind = "other_error" -> Raise
           [] OTHER -> None
get_translation(rs) == get_translation_from(rs, 0)

\* the validation of process_word: a stripped, non-empty text or None
validated(translation) ==
    IF ~Truthy(translation) \/ Strip(translation) = ""
    THEN None
    ELSE Strip(translation)
\* process_word without its try / except: the exception leaves the call
process_word_unguarded(translation) ==
    IF translation = Raise THEN Raise ELSE validated(translation)
\* DictionaryBuilder.process_word (Google): validate and strip; "except
\* Exception" turns whatever get_translation raised into None
process_word(translation) ==
    IF translation = Raise THEN None ELSE validated(translation)
\* DictionaryBuilder.process_word (Glosbe): the same validation, no try
glosbe_process_word(translation) ==
    IF translation = Raise THEN Raise ELSE validated(translation)

\* GlosbeClient.get_translation for one answered request (not a 429):
\* the best match's stripped translation, or None
GlosbeResponses ==
    {[kind |-> "error", text |-> ""],        \* any exception in the try block
     [kind |-> "no_match", text |-> ""]}     \* no (valid) matches
    \cup {[kind |-> "text", text |-> t] : t \in RawTexts}
glosbe_get_translation(r) ==
    IF r.kind = "text" /\ Strip(r.text) # "" THEN Strip(r.text) ELSE None

\* what a finished future holds: the value process_word returned, or
\* Raise when the call raised
GoogleOutcomes == {process_word(get_translation(rs)) : rs \in ResponseSeqs}
GlosbeOutcomes ==
    {glosbe_process_word(glosbe_get_translation(r)) : r \in GlosbeResponses}
    \cup {Raise}
Outcomes(b) == IF b = "google" THEN GoogleOutcomes ELSE GlosbeOutcomes

\* every request of the call was answered with 429
AllThrottled(rs) == \A n \in DOMAIN rs : rs[n].kind = "429"
\* the value of a future together with how the call came to it: whether all
\* its requests were throttled, whether get_translation raised
GoogleResults ==
    {[value |-> process_word(get_translation(rs)),
      throttled |-> AllThrottled(rs),
      raised |-> get_translation(rs) = Raise] : rs \in ResponseSeqs}
GlosbeResults ==
    {[value |-> v, throttled |-> FALSE, raised |-> v = Raise]
         : v \in GlosbeOutcomes}
Results(b) == IF b = "google" THEN GoogleResults ELSE GlosbeResults

\* max_workers of the pool: the default of the Google process_words, the
\* argument main() passes in the Glosbe script
max_workers(b) == IF b = "google" THEN 30 ELSE 1

----------------------------------------------------------------------------
(* progress.json and the other files *)

\* list(a_set): the elements in some order
ListOf(S) == CHOOSE s \in Orders(S) : TRUE

\* no progress.json
ProgressAbsent ==
    [state |-> "absent", translations |-> EmptyMap, processed_words |-> <<>>,
     problematic_words |-> <<>>, results_count |-> 0]
\* progress.json right after open(..., 'w') and until json.dump and the
\* close have finished: empty or a prefix of the JSON text
ProgressTruncated ==
    [state |-> "truncated", translations |-> EmptyMap, processed_words |-> <<>>,
     problematic_words |-> <<>>, results_count |-> 0]
\* only what this call of process_words added (the keys of results), not the
\* whole state
progress_data_delta(tr, pw, pb, res) ==
    [state |-> "complete",
     translations |-> [w \in DOMAIN res |-> res[w][1]],
     processed_words |-> ListOf(DOMAIN res),
     problematic_words |-> ListOf(pb \ DOMAIN res),
     results_count |-> Cardinality(DOMAIN res)]
\* progress_data of save_progress, written in full
progress_data(tr, pw, pb, res) ==
    [state |-> "complete", translations |-> tr, processed_words |-> ListOf(pw),
     problematic_words |-> ListOf(pb),
     results_count |-> Cardinality(DOMAIN res)]

\* json.load succeeds on the file
Parses(file) == file.state = "complete"

NoTermBank == [written |-> FALSE, entries |-> {}]
NoReport == [written |-> FALSE, lines |-> {}]
\* create_yomichan_entry: term, the translation, the flags line if any
create_yomichan_entry(spanish, korean, flags) ==
    [term |-> spanish, korean |-> korean, has_flags |-> flags # "",
     flags |-> flags]
\* save_yomichan: one entry per item of results
yomichan_entries(res) ==
    {create_yomichan_entry(w, res[w][1], res[w][2]) : w \in DOMAIN res}

----------------------------------------------------------------------------
(* main(): planning the work *)

\* word_to_flags of main (Google)
word_to_flags(pairs) ==
    [w \in WordsOf(pairs) |-> (CHOOSE n \in DOMAIN pairs : pairs[n][1] = w)]
FlagsOf(pairs, w) == pairs[word_to_flags(pairs)[w]][2]

\* problematic_to_retry, for one iteration order of the set
problematic_to_retry(pairs, order) ==
    [n \in DOMAIN order |-> <<order[n], FlagsOf(pairs, order[n])>>]
\* regular_words_to_process (Google main)
regular_words_to_process(pairs, pw, pb) ==
    SelectSeq(pairs, LAMBDA p : p[1] \notin pw /\ p[1] \notin pb)
\* words_to_process of the Glosbe main
glosbe_words_to_process(pairs, pw) ==
    SelectSeq(pairs, LAMBDA p : p[1] \notin pw)
\* results of main when nothing is left to process (Google)
results_from_translations(pairs, tr) ==
    [w \in (DOMAIN tr) \cap WordsOf(pairs) |-> <<tr[w], FlagsOf(pairs, w)>>]

----------------------------------------------------------------------------
(* process_words *)

\* main() with nothing left to process: on to "Always save problematic words"
AfterNoWork_exit(b) == "done"
AfterNoWork(b) == "report"

\* batch = word_flag_pairs[i:i + batch_size]
Batch(pairs, idx) ==
    SubSeq(pairs, idx + 1, Min(idx + batch_size, Len(pairs)))
\* the filter left out: every item of the slice is submitted
BatchFilter_unfiltered(batch, pw) == batch
\* "Filter out already processed words"
BatchFilter(batch, pw) == SelectSeq(batch, LAMBDA p : p[1] \notin pw)

\* the body of the as_completed loop, per field
Succeeded(outcome) == outcome # Raise /\ Truthy(outcome)
\* the dict assigned anew instead of the item: earlier translations are lost
record_translations_replaced(tr, word, outcome) ==
    IF Succeeded(outcome) THEN Put(EmptyMap, word, outcome) ELSE tr
record_translations(tr, word, outcome) ==
    IF Succeeded(outcome) THEN Put(tr, word, outcome) ELSE tr
\* the flags of the pair left behind
record_results_unflagged(res, word, flags, outcome) ==
    IF Succeeded(outcome) THEN Put(res, word, <<outcome, "">>) ELSE res
record_results(res, word, flags, outcome) ==
    IF Succeeded(outcome) THEN Put(res, word, <<outcome, flags>>) ELSE res
\* the add not under "else": every recorded word is added
record_problematic_always(b, pb, word, outcome) == pb \cup {word}
\* the "else" branch left out: a failed word is not added by the loop
record_problematic_never(b, pb, word, outcome) ==
    IF b = "google" /\ Succeeded(outcome) THEN pb \ {word} ELSE pb
\* clear() in place of discard(word): a success empties the whole set
record_problematic_cleared(b, pb, word, outcome) ==
    IF b = "google"
    THEN IF Succeeded(outcome) THEN {} ELSE pb \cup {word}
    ELSE IF outcome = Raise THEN pb \cup {word} ELSE pb
record_problematic(b, pb, word, outcome) ==
    IF b = "google"
    THEN IF Succeeded(outcome) THEN pb \ {word} ELSE pb \cup {word}
    ELSE IF outcome = Raise THEN pb \cup {word} ELSE pb
\* the add under "if translation": only successes are marked processed
record_processed_on_success(pw, word, outcome) ==
    IF Succeeded(outcome) THEN pw \cup {word} ELSE pw
\* "Mark as processed regardless of success/failure"
record_processed(pw, word, outcome) == pw \cup {word}

\* Glosbe process_word adds the word to problematic_words itself, on the
\* worker thread; the Google one writes nothing
worker_problematic(b, pb, word, outcome) ==
    IF b = "glosbe" /\ outcome = None THEN pb \cup {word} ELSE pb

\* what follows the as_completed loop of a batch: "Save progress after each
\* batch", inside the for loop
AfterBatch(idx, pairs) == "save_open"
\* save_progress after the for loop instead of inside it
CheckpointDue_at_end(idx, pairs) == idx + batch_size >= Len(pairs)
CheckpointDue(idx, pairs) == TRUE
\* the items of every slice up to and including the one at idx
Consumed(pairs, idx) == SubSeq(pairs, 1, Min(idx + batch_size, Len(pairs)))
\* "return results" inside the for loop: the return after the first slice
AfterSave_returned(idx, pairs) == "report"
\* what follows save_progress: the next slice, or the return
AfterSave(idx, pairs) ==
    IF idx + batch_size < Len(pairs) THEN "batch" ELSE "report"

\* except FileNotFoundError in load_word_list: sys.exit(1)
OnMissingFile == "exited"

\* an exception of save_progress logged and the loop carried on
OnSaveError_swallowed(idx, pairs) == AfterSave(idx, pairs)
\* an exception of save_progress leaves process_words and main(): the
\* process ends with a traceback
OnSaveError(idx, pairs) == "crashed"

Finished == GoogleOutcomes \cup GlosbeOutcomes
Running(f) == {w \in DOMAIN f : f[w] = "running"}
Unrecorded(f) == {w \in DOMAIN f : f[w] # "recorded"}

----------------------------------------------------------------------------
(* Initial states *)

\* the files load_word_list can return: unique words, each with flags
WordLists ==
    UNION {{[n \in DOMAIN ws |-> <<ws[n], fl[n]>>] : fl \in [DOMAIN ws -> Flags]}
           : ws \in LoadedWords(Keys)}

NoWorker == 0
RateIdle ==
    /\ client = "google"
    /\ now = 0 /\ lock = NoWorker /\ last_request_time = 0
    /\ request_count = 0 /\ rl_pc = <<>> /\ current_time = <<>>
    /\ count_read = <<>> /\ requests_sent = 0
    /\ sleep_time = <<>> /\ grants = <<>>

\* no call of get_translation under way, no file being read
ThrottleIdle ==
    /\ vpn_available = FALSE /\ rate_limit_hits = 0
    /\ th_pc = <<>> /\ th_depth = <<>> /\ th_attempt = <<>>
    /\ th_switched = <<>> /\ th_result = <<>>
    /\ th_waits = <<>> /\ th_probes = <<>>
ParseIdle ==
    /\ file_lines = <<>> /\ unique_pairs = <<>> /\ lw_pc = "returned"

\* a builder as __init__ leaves it: the fields load_progress assigns
FreshBuilder ==
    [raised |-> FALSE, translations |-> EmptyMap, processed_words |-> {},
     problematic_words |-> {}]
\* a decoded progress.json with no key at all
NoData ==
    [keys |-> {}, translations |-> EmptyMap, processed_words |-> <<>>,
     problematic_words |-> <<>>, results_count |-> 0]
\* no stored record being loaded
LoadIdle ==
    /\ data = NoData /\ ld_builder = FreshBuilder /\ ld_pc = "returned"

\* the module globals of the scraper before checkflags
DefaultOptions ==
    [comprehensivemode |-> FALSE, audioenabled |-> TRUE,
     definitionsenabled |-> TRUE, sentencesenabled |-> TRUE]
\* the scraper is not running
ScrapeIdle ==
    /\ options = DefaultOptions /\ count = 0 /\ output_csv = <<>>
    /\ savedwords = 0 /\ skipppedwords = 0 /\ sc_pc = "completed"
\* no call of get_translation being followed
FetchIdle ==
    /\ gt_answers = <<>> /\ gt_attempt = 0 /\ gt_requests = 0
    /\ gt_result = None /\ gt_cause = "no_data"

\* no summary logged yet; the counts main() logs at its end
NoSummary ==
    [emitted |-> FALSE, processed |-> 0, succeeded |-> 0, problematic |-> 0]
final_summary(tr, pw, pb) ==
    [emitted |-> TRUE, processed |-> Cardinality(pw),
     succeeded |-> Cardinality(DOMAIN tr), problematic |-> Cardinality(pb)]

\* a fresh process: DictionaryBuilder.__init__
FreshMemory ==
    /\ translations = EmptyMap
    /\ processed_words = {}
    /\ problematic_words = {}
    /\ results = EmptyMap
    /\ words_to_process = <<>>
    /\ i = 0
    /\ futures = EmptyMap
    /\ loaded = [processed |-> {}, problematic |-> {}]
    /\ dispatched = <<>>
    /\ saves = 0
    /\ yomichan_calls = 0
    /\ outcome_of = EmptyMap
    /\ report_calls = 0
    /\ summary = NoSummary

Init ==
    /\ word_list_file \in WordLists
    /\ word_list_found \in BOOLEAN
    /\ builder \in Builders
    /\ progress_json = ProgressAbsent
    /\ term_bank = NoTermBank
    /\ problematic_txt = NoReport
    /\ run = 1
    /\ pc = "start"
    /\ FreshMemory
    /\ fetch_count = [w \in Keys |-> 0]
    /\ completed_keys = {}
    /\ kills = 0
    /\ torn = FALSE
    /\ load_raised = FALSE
    /\ save_failed = 0
    /\ RateIdle
    /\ ThrottleIdle
    /\ ParseIdle
    /\ LoadIdle
    /\ ScrapeIdle
    /\ FetchIdle

files == <<word_list_file, progress_json, term_bank, problematic_txt>>
memory == <<translations, processed_words, problematic_words, results,
            words_to_process, i, futures>>
history == <<loaded, dispatched, fetch_count, completed_keys, saves,
             yomichan_calls, kills, torn, load_raised>>

----------------------------------------------------------------------------
(* Actions of a run of main() *)

\* builder.load_progress()
LoadProgress ==
    /\ pc = "start"
    /\ IF progress_json.state = "absent"
       THEN \* FileNotFoundError: "starting fresh"
            /\ pc' = "load_word_list"
            /\ loaded' = [processed |-> {}, problematic |-> {}]
            /\ UNCHANGED <<translations, processed_words, problematic_words,
                           load_raised>>
       ELSE IF Parses(progress_json)
       THEN /\ translations' = progress_json.translations
            /\ processed_words' = Range(progress_json.processed_words)
            /\ problematic_words' = Range(progress_json.problematic_words)
            /\ loaded' = [processed |-> Range(progress_json.processed_words),
                          problematic |->
                              Range(progress_json.problematic_words)]
            /\ pc' = "load_word_list"
            /\ UNCHANGED load_raised
       ELSE \* json.JSONDecodeError is not caught: main() dies
            /\ pc' = "crashed"
            /\ load_raised' = TRUE
            /\ UNCHANGED <<translations, processed_words, problematic_words,
                           loaded>>
    /\ UNCHANGED <<files, builder, run, results, words_to_process, i, futures,
                   dispatched, fetch_count, completed_keys, saves,
                   yomichan_calls, kills, torn, notes, offBuild>>

\* load_word_list and the planning of main() up to the call of process_words
PlanWork ==
    /\ pc = "load_word_list"
    /\ word_list_found
    /\ \E order \in Orders(problematic_words \cap WordsOf(word_list_file)) :
          LET wtp == IF builder = "google"
                     THEN problematic_to_retry(word_list_file, order)
                          \o regular_words_to_process(word_list_file,
                                 processed_words, problematic_words)
                     ELSE glosbe_words_to_process(word_list_file,
                                                  processed_words)
          IN /\ words_to_process' = wtp
             /\ IF wtp # <<>>
                THEN pc' = "batch" /\ results' = EmptyMap
                ELSE /\ pc' = AfterNoWork(builder)
                     /\ results' = IF builder = "google"
                                   THEN results_from_translations(
                                            word_list_file, translations)
                                   ELSE EmptyMap
    /\ i' = 0
    /\ UNCHANGED <<files, builder, run, translations, processed_words,
                   problematic_words, futures, history, notes, offBuild>>

\* load_word_list on a path that does not exist: "Word list file not
\* found", sys.exit(1)
WordListMissing ==
    /\ pc = "load_word_list"
    /\ ~word_list_found
    /\ pc' = OnMissingFile
    /\ UNCHANGED <<files, builder, run, memory, history, notes, offBuild>>

\* top of the for loop: slice, filter, submit every task to the pool
SubmitBatch ==
    /\ pc = "batch"
    /\ LET todo == BatchFilter(Batch(words_to_process, i), processed_words)
       IN IF todo # <<>>
          THEN /\ futures' = [w \in WordsOf(todo) |-> "queued"]
               /\ dispatched' = dispatched \o [n \in DOMAIN todo |-> todo[n][1]]
               /\ pc' = "collect"
          ELSE /\ pc' = AfterBatch(i, words_to_process)
               /\ UNCHANGED <<futures, dispatched>>
    /\ UNCHANGED <<files, builder, run, translations, processed_words,
                   problematic_words, results, words_to_process, i, loaded,
                   fetch_count, completed_keys, saves, yomichan_calls, kills,
                   torn, load_raised, notes, offBuild>>

\* a pool thread takes the oldest queued task and calls process_word
StartTask(w) ==
    /\ pc = "collect"
    /\ w \in DOMAIN futures /\ futures[w] = "queued"
    /\ Cardinality(Running(futures)) < max_workers(builder)
    /\ LET todo == BatchFilter(Batch(words_to_process, i), processed_words)
       IN \A n, m \in DOMAIN todo :
              (todo[m][1] = w /\ n < m) =>
                  (todo[n][1] \notin DOMAIN futures
                   \/ futures[todo[n][1]] # "queued")
    /\ futures' = [futures EXCEPT ![w] = "running"]
    /\ fetch_count' = [fetch_count EXCEPT ![w] = @ + 1]
    /\ UNCHANGED <<files, builder, run, pc, translations, processed_words,
                   problematic_words, results, words_to_process, i, loaded,
                   dispatched, completed_keys, saves, yomichan_calls, kills,
                   torn, load_raised, notes, offBuild>>

\* process_word returns (or raises) on its pool thread
CompleteTask(w) ==
    /\ pc = "collect"
    /\ w \in DOMAIN futures /\ futures[w] = "running"
    /\ \E res \in Results(builder) :
          /\ futures' = [futures EXCEPT ![w] = res.value]
          /\ outcome_of' = Put(outcome_of, w, res)
          /\ problematic_words' =
                 worker_problematic(builder, problematic_words, w, res.value)
    /\ UNCHANGED <<files, builder, run, pc, translations, processed_words,
                   results, words_to_process, i, history, save_failed,
                   report_calls, summary, offBuild>>

\* one iteration of "for future in as_completed(future_to_word)"; after the
\* last one the pool is shut down and the loop body goes on
RecordOutcome(w) ==
    /\ pc = "collect"
    /\ w \in DOMAIN futures /\ futures[w] \in Finished
    /\ LET outcome == futures[w]
           flags == FlagsOf(words_to_process, w)
       IN /\ results' = record_results(results, w, flags, outcome)
          /\ translations' = record_translations(translations, w, outcome)
          /\ problematic_words' =
                 record_problematic(builder, problematic_words, w, outcome)
          /\ processed_words' = record_processed(processed_words, w, outcome)
    /\ IF Unrecorded(futures) = {w}
       THEN futures' = EmptyMap /\ pc' = AfterBatch(i, words_to_process)
       ELSE futures' = [futures EXCEPT ![w] = "recorded"] /\ UNCHANGED pc
    /\ UNCHANGED <<files, builder, run, words_to_process, i, history,
                   notes, offBuild>>

\* save_progress, first half: open('progress.json', 'w') truncates the file
SaveOpen ==
    /\ pc = "save_open"
    /\ IF CheckpointDue(i, words_to_process)
       THEN /\ progress_json' = ProgressTruncated
            /\ pc' = "save_dump"
            /\ UNCHANGED i
       ELSE /\ pc' = AfterSave(i, words_to_process)
            /\ i' = IF AfterSave(i, words_to_process) = "batch"
                    THEN i + batch_size ELSE i
            /\ UNCHANGED progress_json
    /\ UNCHANGED <<word_list_file, term_bank, problematic_txt, builder, run,
                   translations, processed_words, problematic_words, results,
                   words_to_process, futures, history, notes, offBuild>>

\* save_progress, second half: json.dump and close; then the end of the loop
\* body (the sleep between batches) and the loop test
SaveDump ==
    /\ pc = "save_dump"
    /\ progress_json' = progress_data(translations, processed_words,
                                      problematic_words, results)
    /\ saves' = saves + 1
    /\ completed_keys' =
           completed_keys \cup WordsOf(Consumed(words_to_process, i))
    /\ pc' = AfterSave(i, words_to_process)
    /\ i' = IF AfterSave(i, words_to_process) = "batch"
            THEN i + batch_size ELSE i
    /\ UNCHANGED <<word_list_file, term_bank, problematic_txt, builder, run,
                   translations, processed_words, problematic_words, results,
                   words_to_process, futures, loaded, dispatched, fetch_count,
                   yomichan_calls, kills, torn, load_raised, notes, offBuild>>

\* save_progress raises (open or json.dump fails: disk full, no permission):
\* nothing between it and the interpreter's top level catches the exception.
\* A failure after open() has truncated the file leaves it truncated.
SaveFail ==
    /\ pc \in {"save_open", "save_dump"}
    /\ pc = "save_open" => CheckpointDue(i, words_to_process)
    /\ save_failed' = run
    /\ torn' = (torn \/ pc = "save_dump")
    /\ pc' = OnSaveError(i, words_to_process)
    /\ i' = IF OnSaveError(i, words_to_process) = "batch"
            THEN i + batch_size ELSE i
    /\ UNCHANGED <<files, builder, run, translations, processed_words,
                   problematic_words, results, words_to_process, futures,
                   loaded, dispatched, fetch_count, completed_keys, saves,
                   yomichan_calls, kills, load_raised, outcome_of,
                   report_calls, summary, offBuild>>

\* builder.save_problematic_words()
SaveProblematicWords ==
    /\ pc = "report"
    /\ problematic_txt' = [written |-> TRUE, lines |-> problematic_words]
    /\ report_calls' = report_calls + 1
    /\ pc' = "yomichan"
    /\ UNCHANGED <<word_list_file, progress_json, term_bank, builder, run,
                   memory, history, outcome_of, save_failed, summary,
                   offBuild>>

\* builder.save_yomichan(results, ...); the Glosbe main() then repeats the
\* report and the artifact once more; the summary ends the run
SaveYomichan ==
    /\ pc = "yomichan"
    /\ term_bank' = [written |-> TRUE, entries |-> yomichan_entries(results)]
    /\ yomichan_calls' = yomichan_calls + 1
    /\ pc' = IF builder = "glosbe" /\ yomichan_calls = 0
             THEN "report" ELSE "done"
    /\ summary' = IF builder = "glosbe" /\ yomichan_calls = 0
                  THEN summary
                  ELSE final_summary(translations, processed_words,
                                     problematic_words)
    /\ UNCHANGED <<word_list_file, progress_json, problematic_txt, builder,
                   run, memory, loaded, dispatched, fetch_count,
                   completed_keys, saves, kills, torn, load_raised,
                   outcome_of, save_failed, report_calls, offBuild>>

\* the process is killed (SIGKILL, power loss): its memory is gone, the
\* files stay as they are
Kill ==
    /\ pc \notin {"done", "killed", "crashed", "exited", "interrupted"}
    /\ pc' = "killed"
    /\ kills' = kills + 1
    /\ torn' = (torn \/ pc = "save_dump")
    /\ translations' = EmptyMap
    /\ processed_words' = {}
    /\ problematic_words' = {}
    /\ results' = EmptyMap
    /\ words_to_process' = <<>>
    /\ i' = 0
    /\ futures' = EmptyMap
    /\ UNCHANGED <<files, builder, run, loaded, dispatched, fetch_count,
                   completed_keys, saves, yomichan_calls, load_raised,
                   notes, offBuild>>

\* the operator presses Ctrl-C while a batch is in flight: KeyboardInterrupt
\* is raised in the coordinating thread inside as_completed; the "with" of
\* the executor waits until every submitted task has run, then the exception
\* leaves process_words and main() with nothing recorded or saved
Interrupt ==
    /\ pc = "collect"
    /\ pc' = "interrupted"
    /\ kills' = kills + 1
    /\ fetch_count' =
           [w \in Keys |->
               IF w \in DOMAIN futures /\ futures[w] = "queued"
               THEN fetch_count[w] + 1 ELSE fetch_count[w]]
    /\ translations' = EmptyMap
    /\ processed_words' = {}
    /\ problematic_words' = {}
    /\ results' = EmptyMap
    /\ words_to_process' = <<>>
    /\ i' = 0
    /\ futures' = EmptyMap
    /\ UNCHANGED <<files, builder, run, loaded, dispatched, completed_keys,
                   saves, yomichan_calls, torn, load_raised, notes, offBuild>>

\* the operator starts the script again on the same word list
Restart ==
    /\ pc \in {"done", "killed", "crashed", "exited", "interrupted"}
    /\ run < MaxRuns
    /\ run' = run + 1
    /\ pc' = "start"
    /\ translations' = EmptyMap
    /\ processed_words' = {}
    /\ problematic_words' = {}
    /\ results' = EmptyMap
    /\ words_to_process' = <<>>
    /\ i' = 0
    /\ futures' = EmptyMap
    /\ loaded' = [processed |-> {}, problematic |-> {}]
    /\ dispatched' = <<>>
    /\ saves' = 0
    /\ yomichan_calls' = 0
    /\ outcome_of' = EmptyMap
    /\ report_calls' = 0
    /\ summary' = NoSummary
    /\ UNCHANGED <<files, builder, fetch_count, completed_keys, kills, torn,
                   load_raised, save_failed, offBuild>>

Next ==
    \/ LoadProgress
    \/ PlanWork
    \/ WordListMissing
    \/ SubmitBatch
    \/ \E w \in Keys : StartTask(w)
    \/ \E w \in Keys : CompleteTask(w)
    \/ \E w \in Keys : RecordOutcome(w)
    \/ SaveOpen
    \/ SaveDump
    \/ SaveFail
    \/ SaveProblematicWords
    \/ SaveYomichan
    \/ Kill
    \/ Interrupt
    \/ Restart

Spec == Init /\ [][Next]_vars

\* a run that resumes on a store written for an earlier word list: the list
\* has since lost one key, which the store still holds
RemovedKey == "xyz123"
CurrentLists == {wl \in WordLists : RemovedKey \notin WordsOf(wl)}
\* progress.json as the earlier runs left it: the removed key translated, or
\* failed and listed as problematic
EarlierStores ==
    {progress_data(Put(EmptyMap, RemovedKey, "ko"), {RemovedKey}, {},
                   Put(EmptyMap, RemovedKey, <<"ko", "">>)),
     progress_data(EmptyMap, {RemovedKey}, {RemovedKey}, EmptyMap)}
ResumeInit ==
    /\ word_list_file \in CurrentLists
    /\ word_list_found \in BOOLEAN
    /\ builder \in Builders
    /\ progress_json \in EarlierStores
    /\ term_bank = NoTermBank
    /\ problematic_txt = NoReport
    /\ run = 1
    /\ pc = "start"
    /\ FreshMemory
    /\ fetch_count = [w \in Keys |-> 0]
    /\ completed_keys = {}
    /\ kills = 0
    /\ torn = FALSE
    /\ load_raised = FALSE
    /\ save_failed = 0
    /\ RateIdle
    /\ ThrottleIdle
    /\ ParseIdle
    /\ LoadIdle
    /\ ScrapeIdle
    /\ FetchIdle
SpecResume == ResumeInit /\ [][Next]_vars

\* one run of main() that the environment lets run: the word list is there,
\* every call of process_word returns or raises, no signal, no failing write.
\* The pool runs every submitted task and as_completed yields every finished
\* future, so a step that can be taken is taken.
RunInit == Init /\ word_list_found
RunNext ==
    \/ LoadProgress
    \/ PlanWork
    \/ SubmitBatch
    \/ \E w \in Keys : StartTask(w)
    \/ \E w \in Keys : CompleteTask(w)
    \/ \E w \in Keys : RecordOutcome(w)
    \/ SaveOpen
    \/ SaveDump
    \/ SaveProblematicWords
    \/ SaveYomichan
SpecRun == RunInit /\ [][RunNext]_vars /\ WF_vars(RunNext)

----------------------------------------------------------------------------
(* GoogleTranslateClient._rate_limit under concurrent callers.  The clock    *)
(* counts ticks of 50 ms, so min_request_interval = 0.1 s is 2 ticks.       *)

min_request_interval == 2
Workers == 1..NumWorkers

\* GlosbeClient.min_request_interval = 1.0 s, in ticks of 500 ms
glosbe_min_request_interval == 2
MinInterval(c) ==
    IF c = "google" THEN min_request_interval ELSE glosbe_min_request_interval
\* only GoogleTranslateClient has self.lock
HasLock(c) == c = "google"
\* "with self.lock": the lock can be taken
LockAvailable(l) == l = NoWorker
\* the lock left held when _rate_limit returns
Release_never(l, w) == l
\* the end of the with block: the thread that holds the lock releases it
Release(l, w) == IF l = w THEN NoWorker ELSE l
\* time_since_last and the sleep it asks for (0: none)
SleepFor(cur, last) ==
    IF cur - last < min_request_interval
    THEN min_request_interval - (cur - last)
    ELSE 0
\* GlosbeClient._rate_limit: the same computation, with its own interval
glosbe_SleepFor(cur, last) ==
    IF cur - last < glosbe_min_request_interval
    THEN glosbe_min_request_interval - (cur - last)
    ELSE 0
ClientSleepFor(c, cur, last) ==
    IF c = "google" THEN SleepFor(cur, last) ELSE glosbe_SleepFor(cur, last)
\* self.last_request_time = current_time, the value read before the sleep
StampTime_before_sleep(cur, clock) == cur
\* self.last_request_time = time.time(), read after the sleep
StampTime(cur, clock) == clock

Calls ==
    Len(grants) + Cardinality({w \in Workers : rl_pc[w] \notin {"idle", "count"}})

\* the runs of main() at rest, for the specifications of the clients
BuildIdle ==
    /\ word_list_file = <<>>
    /\ word_list_found = TRUE
    /\ builder = "google"
    /\ progress_json = ProgressAbsent
    /\ term_bank = NoTermBank
    /\ problematic_txt = NoReport
    /\ run = 1
    /\ pc = "collect"
    /\ FreshMemory
    /\ fetch_count = [w \in Keys |-> 0]
    /\ completed_keys = {}
    /\ kills = 0
    /\ torn = FALSE
    /\ load_raised = FALSE
    /\ save_failed = 0

\* a new client (__init__) and the pool threads about to call _rate_limit
RateInitFor(c) ==
    /\ BuildIdle
    /\ ThrottleIdle
    /\ ParseIdle
    /\ LoadIdle
    /\ ScrapeIdle
    /\ FetchIdle
    /\ client = c
    \* time.time() is far beyond one interval when the client is created
    /\ now = MinInterval(c)
    /\ lock = NoWorker
    /\ last_request_time = 0
    /\ request_count = 0
    /\ rl_pc = [w \in Workers |-> "idle"]
    /\ count_read = [w \in Workers |-> 0]
    /\ requests_sent = 0
    /\ current_time = [w \in Workers |-> 0]
    /\ sleep_time = [w \in Workers |-> 0]
    /\ grants = <<>>
RateInit == RateInitFor("google")
RateGlosbeInit == RateInitFor("glosbe")

\* a pool thread calls self._rate_limit() and blocks on the lock
RateCall(w) ==
    /\ rl_pc[w] = "idle"
    /\ Calls < MaxRequests
    /\ rl_pc' = [rl_pc EXCEPT ![w] = "waiting"]
    /\ UNCHANGED <<offRate, count_read, requests_sent,
                   now, lock, last_request_time, request_count,
                   current_time, sleep_time, grants>>

\* the thread enters the with block
RateAcquire(w) ==
    /\ rl_pc[w] = "waiting"
    /\ HasLock(client) => LockAvailable(lock)
    /\ lock' = IF HasLock(client) THEN w ELSE lock
    /\ rl_pc' = [rl_pc EXCEPT ![w] = "locked"]
    /\ UNCHANGED <<offRate, count_read, requests_sent,
                   now, last_request_time, request_count,
                   current_time, sleep_time, grants>>

\* current_time = time.time(); time_since_last; sleep_time
RateRead(w) ==
    /\ rl_pc[w] = "locked"
    /\ current_time' = [current_time EXCEPT ![w] = now]
    /\ sleep_time' = [sleep_time EXCEPT
                          ![w] = ClientSleepFor(client, now, last_request_time)]
    /\ rl_pc' = [rl_pc EXCEPT ![w] =
                    IF ClientSleepFor(client, now, last_request_time) > 0
                    THEN "sleeping" ELSE "stamp"]
    /\ UNCHANGED <<offRate, count_read, requests_sent,
                   now, lock, last_request_time, request_count,
                   grants>>

\* time.sleep(sleep_time) returns, not before sleep_time has passed
RateWake(w) ==
    /\ rl_pc[w] = "sleeping"
    /\ now >= current_time[w] + sleep_time[w]
    /\ rl_pc' = [rl_pc EXCEPT ![w] = "stamp"]
    /\ UNCHANGED <<offRate, count_read, requests_sent,
                   now, lock, last_request_time, request_count,
                   current_time, sleep_time, grants>>

\* self.last_request_time = ...: the acquisition is granted; then the read
\* of self.request_count by "self.request_count += 1"
RateGrant(w) ==
    /\ rl_pc[w] = "stamp"
    /\ last_request_time' = StampTime(current_time[w], now)
    /\ grants' = Append(grants, now)
    /\ count_read' = [count_read EXCEPT ![w] = request_count]
    /\ rl_pc' = [rl_pc EXCEPT ![w] = "count"]
    /\ UNCHANGED <<offRate, now, lock, request_count, requests_sent,
                   current_time, sleep_time>>

\* the store of "self.request_count += 1"; the with block ends and the lock
\* is released; _rate_limit returns and the caller sends its request
RateCount(w) ==
    /\ rl_pc[w] = "count"
    /\ request_count' = count_read[w] + 1
    /\ requests_sent' = requests_sent + 1
    /\ lock' = Release(lock, w)
    /\ rl_pc' = [rl_pc EXCEPT ![w] = "idle"]
    /\ UNCHANGED <<offRate, now, last_request_time, count_read, current_time,
                   sleep_time, grants>>

\* the clock advances: it is followed up to MaxTime, and beyond it for as
\* long as a time.sleep has not run out
Tick ==
    /\ \/ now < MaxTime
       \/ \E w \in Workers : /\ rl_pc[w] = "sleeping"
                             /\ now < current_time[w] + sleep_time[w]
    /\ now' = now + 1
    /\ UNCHANGED <<offRate, count_read, requests_sent,
                   lock, last_request_time, request_count, rl_pc,
                   current_time, sleep_time, grants>>

RateNext ==
    \/ \E w \in Workers : RateCall(w)
    \/ \E w \in Workers : RateAcquire(w)
    \/ \E w \in Workers : RateRead(w)
    \/ \E w \in Workers : RateWake(w)
    \/ \E w \in Workers : RateGrant(w)
    \/ \E w \in Workers : RateCount(w)
    \/ Tick

SpecRate == RateInit /\ [][RateNext]_vars
SpecRateGlosbe == RateGlosbeInit /\ [][RateNext]_vars
\* every pool thread has called _rate_limit of the Google client and is
\* blocked on the lock; the client is new, or an earlier call has just sent
\* its request
RateBlockedInit ==
    /\ BuildIdle
    /\ ThrottleIdle
    /\ ParseIdle
    /\ LoadIdle
    /\ ScrapeIdle
    /\ FetchIdle
    /\ client = "google"
    /\ now = min_request_interval
    /\ lock = NoWorker
    /\ request_count \in {0, 1}
    /\ requests_sent = request_count
    /\ last_request_time = IF request_count = 1 THEN now ELSE 0
    /\ grants = IF request_count = 1 THEN <<now>> ELSE <<>>
    /\ rl_pc = [w \in Workers |-> "waiting"]
    /\ count_read = [w \in Workers |-> 0]
    /\ current_time = [w \in Workers |-> 0]
    /\ sleep_time = [w \in Workers |-> 0]
\* a step of a thread inside the with block
RateInside ==
    \E w \in Workers :
        RateRead(w) \/ RateWake(w) \/ RateGrant(w) \/ RateCount(w)
RateBlockedNext ==
    \/ \E w \in Workers : RateAcquire(w)
    \/ RateInside
    \/ Tick
\* threads that run and a fair lock: time passes, the thread inside the with
\* block takes its next step when it can, and a thread that waits for the
\* lock gets it if the lock is free again and again
RateFairness ==
    /\ WF_vars(Tick)
    /\ WF_vars(RateInside)
    /\ \A w \in Workers : SF_vars(RateAcquire(w))
SpecRateFair == RateBlockedInit /\ [][RateBlockedNext]_vars /\ RateFairness

----------------------------------------------------------------------------
(* Throttling recovery of GlosbeClient: get_translation answered with 429, *)
(* _handle_rate_limit (the ladder of waits and probes, the VPN switch, the *)
(* operator prompt) and the nested call that issues the request again.     *)
(* get_similar_phrases has the same structure.                             *)

\* nested get_translation calls the interpreter allows before it raises
\* RecursionError (sys.getrecursionlimit(), 1000 by default; scaled down)
recursion_limit == 1
\* rate_limit_hits is only compared with 2: the model stops counting here
MaxHits == 2

\* "for attempt in range(3)"
ladder_attempts == 3
\* "self.rate_limit_hits >= 2"
vpn_hits == 2

\* base_delay, max_delay, and the delay before the probe of an attempt
base_delay == 60
max_delay == 900
ladder_delay_linear(attempt) == Min(base_delay * (attempt + 1), max_delay)
ladder_delay(attempt) == Min(base_delay * (2 ^ attempt), max_delay)

\* how the external VPN commands of _switch_vpn_location can end
VpnOutcomes == {"switched", "nonzero_exit", "timeout", "missing", "denied"}
\* _switch_vpn_location: True when the connect command exits with 0, False
\* when it exits with another code or a command times out (TimeoutExpired
\* and SubprocessError are caught); FileNotFoundError of a missing command
\* and PermissionError are OSError, which no clause catches
switch_vpn_location(outcome) ==
    CASE outcome = "switched" -> "True"
      [] outcome \in {"nonzero_exit", "timeout"} -> "False"
      [] OTHER -> Raise

\* "if self.vpn_available and self.rate_limit_hits >= 2"
VpnDue(available, hits) == available /\ hits >= vpn_hits

\* the nested call goes through at any depth
AfterRecovery_unbounded(depth) == "request"
\* "return self.get_translation(spanish_word)" after _handle_rate_limit
\* returned True: one more nested call, or RecursionError at the limit, which
\* "except Exception" of the calling get_translation turns into None
AfterRecovery(depth) ==
    IF depth >= recursion_limit THEN "returned" ELSE "request"

\* a new GlosbeClient and the pool threads about to call get_translation
ThrottleInit ==
    /\ BuildIdle
    /\ RateIdle
    /\ ParseIdle
    /\ LoadIdle
    /\ ScrapeIdle
    /\ FetchIdle
    /\ vpn_available \in BOOLEAN
    /\ rate_limit_hits = 0
    /\ th_pc = [w \in Workers |-> "idle"]
    /\ th_depth = [w \in Workers |-> 0]
    /\ th_attempt = [w \in Workers |-> 0]
    /\ th_switched = [w \in Workers |-> FALSE]
    /\ th_result = [w \in Workers |-> "pending"]
    /\ th_waits = [w \in Workers |-> <<>>]
    /\ th_probes = [w \in Workers |-> 0]

\* _handle_rate_limit is left: its locals are gone
HandlerLeft(w) ==
    /\ th_attempt' = [th_attempt EXCEPT ![w] = 0]
    /\ th_switched' = [th_switched EXCEPT ![w] = FALSE]
    /\ th_waits' = [th_waits EXCEPT ![w] = <<>>]
    /\ th_probes' = [th_probes EXCEPT ![w] = 0]

\* _handle_rate_limit returned True: the request is issued again by a nested
\* call of get_translation
Resume(w) ==
    /\ th_pc' = [th_pc EXCEPT ![w] = AfterRecovery(th_depth[w])]
    /\ th_depth' = [th_depth EXCEPT ![w] =
                        IF AfterRecovery(@) = "request"
                        THEN Min(@ + 1, recursion_limit + 1) ELSE @]
    /\ th_result' = [th_result EXCEPT ![w] =
                         IF AfterRecovery(th_depth[w]) = "request"
                         THEN @ ELSE "gave_up"]
    /\ HandlerLeft(w)

\* a pool thread calls client.get_translation(spanish_word)
ThCall(w) ==
    /\ th_pc[w] = "idle"
    /\ th_pc' = [th_pc EXCEPT ![w] = "request"]
    /\ UNCHANGED <<offThrottle, vpn_available, rate_limit_hits, th_depth,
                   th_attempt, th_switched, th_result, th_waits, th_probes>>

\* the answer to session.get: 429 enters _handle_rate_limit (which counts the
\* hit), any other answer ends the call with a translation or None
ThRespond(w) ==
    /\ th_pc[w] = "request"
    /\ \E status \in {"429", "other"} :
          IF status = "429"
          THEN /\ rate_limit_hits' = Min(rate_limit_hits + 1, MaxHits)
               /\ th_pc' = [th_pc EXCEPT ![w] = "ladder"]
               /\ th_attempt' = [th_attempt EXCEPT ![w] = 0]
               /\ UNCHANGED th_result
          ELSE /\ th_pc' = [th_pc EXCEPT ![w] = "returned"]
               /\ th_result' = [th_result EXCEPT ![w] = "answered"]
               /\ UNCHANGED <<rate_limit_hits, th_attempt>>
    /\ UNCHANGED <<offThrottle, vpn_available, th_depth, th_switched,
                   th_waits, th_probes>>

\* one round of the ladder: time.sleep(delay), then the probe of httpbin; a
\* 200 ends the handler, after the last failed probe the VPN test follows
ThProbe(w) ==
    /\ th_pc[w] = "ladder"
    /\ \E ok \in BOOLEAN :
          IF ok
          THEN Resume(w) /\ UNCHANGED rate_limit_hits
          ELSE /\ th_waits' = [th_waits EXCEPT ![w] =
                                   Append(@, ladder_delay(th_attempt[w]))]
               /\ th_probes' = [th_probes EXCEPT ![w] = @ + 1]
               /\ IF th_attempt[w] + 1 < ladder_attempts
                  THEN /\ th_attempt' = [th_attempt EXCEPT ![w] = @ + 1]
                       /\ UNCHANGED <<th_pc, th_switched>>
                  ELSE /\ th_switched' =
                              [th_switched EXCEPT ![w] =
                                  VpnDue(vpn_available, rate_limit_hits)]
                       /\ th_pc' =
                              [th_pc EXCEPT ![w] =
                                  IF VpnDue(vpn_available, rate_limit_hits)
                                  THEN "vpn" ELSE "prompt"]
                       /\ UNCHANGED th_attempt
               /\ UNCHANGED <<rate_limit_hits, th_depth, th_result>>
    /\ UNCHANGED <<offThrottle, vpn_available>>

\* the call of _switch_vpn_location by the handler: on True the counter is
\* reset and the handler returns True, on False the handler goes on to the
\* prompt; an exception leaves the handler and is turned into None by
\* "except Exception" of get_translation
ThSwitchVpn(w) ==
    /\ th_pc[w] = "vpn"
    /\ \E outcome \in VpnOutcomes :
          CASE switch_vpn_location(outcome) = "True" ->
                   Resume(w) /\ rate_limit_hits' = 0
            [] switch_vpn_location(outcome) = "False" ->
                   /\ th_pc' = [th_pc EXCEPT ![w] = "prompt"]
                   /\ UNCHANGED <<rate_limit_hits, th_depth, th_attempt,
                                  th_switched, th_result, th_waits,
                                  th_probes>>
            [] OTHER ->
                   /\ th_pc' = [th_pc EXCEPT ![w] = "returned"]
                   /\ th_result' = [th_result EXCEPT ![w] = "rotation_raised"]
                   /\ HandlerLeft(w)
                   /\ UNCHANGED <<rate_limit_hits, th_depth>>
    /\ UNCHANGED <<offThrottle, vpn_available>>

\* input("Press Enter when VPN is switched: ") returns when the operator
\* presses Enter; on a closed standard input it raises EOFError, which
\* "except Exception" of get_translation turns into None
ThPrompt(w) ==
    /\ th_pc[w] = "prompt"
    /\ \E entered \in {"enter", "eof"} :
          IF entered = "enter"
          THEN Resume(w) /\ rate_limit_hits' = 0
          ELSE /\ th_pc' = [th_pc EXCEPT ![w] = "returned"]
               /\ th_result' = [th_result EXCEPT ![w] = "gave_up"]
               /\ HandlerLeft(w)
               /\ UNCHANGED <<rate_limit_hits, th_depth>>
    /\ UNCHANGED <<offThrottle, vpn_available>>

ThStep(w) ==
    \/ ThCall(w)
    \/ ThRespond(w)
    \/ ThProbe(w)
    \/ ThSwitchVpn(w)
    \/ ThPrompt(w)
ThrottleNext == \E w \in Workers : ThStep(w)

\* the pool keeps running while a thread can take a step: every sleep and
\* subprocess ends, and the operator answers the prompt
SpecThrottle ==
    /\ ThrottleInit
    /\ [][ThrottleNext]_vars
    /\ WF_vars(ThrottleNext)

----------------------------------------------------------------------------
(* load_word_list on the raw lines of the word list file.  A line is a     *)
(* sequence of tokens: " " stands for a run of whitespace, "#" and "|" for *)
(* themselves, any other token for a run of other characters.              *)

\* the longest file read
MaxLines == 4
\* words in the wordlist of the scraper
MaxWords == 2

Space == " "
FileLinesSet ==
    {<<>>,                                     \* an empty line
     <<Space>>,                                \* a line of blanks
     <<"#", "comment">>,
     <<Space, "#", "comment">>,                \* an indented comment
     <<"casa", "|", "n">>,
     <<"xyz123">>,
     <<"agua", "|", "n">>,
     <<Space, "casa", Space, "|", Space, "v", Space>>,
     <<"agua", "|", "n", "|", "v">>,
     <<"|", "n">>,
     <<"Casa", "|", "v">>}                     \* casa in another case
Files == UNION {[1..n -> FileLinesSet] : n \in 0..MaxLines}

\* str.strip(): leading and trailing whitespace removed
RECURSIVE lstrip(_)
lstrip(t) == IF t # <<>> /\ Head(t) = Space THEN lstrip(Tail(t)) ELSE t
RECURSIVE rstrip(_)
rstrip(t) ==
    IF t # <<>> /\ t[Len(t)] = Space
    THEN rstrip(SubSeq(t, 1, Len(t) - 1)) ELSE t
strip(t) == rstrip(lstrip(t))

\* line.split('|', 1): the text before the first '|' and the text after it
RECURSIVE split_once(_, _)
split_once(before, rest) ==
    IF Head(rest) = "|"
    THEN <<before, Tail(rest)>>
    ELSE split_once(Append(before, Head(rest)), Tail(rest))

\* the body of "for line in f": nothing for a blank line or a comment, else
\* the pair appended to word_flag_pairs
parse_line(raw) ==
    LET line == strip(raw) IN
    IF line # <<>> /\ Head(line) # "#"
    THEN IF "|" \in Range(line)
         THEN LET parts == split_once(<<>>, line)
              IN <<  <<strip(parts[1]), strip(parts[2])>>  >>
         ELSE <<  <<strip(line), <<>> >>  >>
    ELSE <<>>
RECURSIVE word_flag_pairs_of(_)
word_flag_pairs_of(lines) ==
    IF lines = <<>> THEN <<>>
    ELSE parse_line(Head(lines)) \o word_flag_pairs_of(Tail(lines))

\* "# Remove duplicates": the first pair of every word is kept
RECURSIVE unique_from(_, _, _)
unique_from(pairs, seen, out) ==
    IF pairs = <<>> THEN out
    ELSE IF Head(pairs)[1] \in seen
         THEN unique_from(Tail(pairs), seen, out)
         ELSE unique_from(Tail(pairs), seen \cup {Head(pairs)[1]},
                          Append(out, Head(pairs)))
\* the list returned as it was collected
remove_duplicates_skipped(pairs) == pairs
\* words compared with their case folded
remove_duplicates_folded(pairs) ==
    LET lower(word) == IF word = <<"Casa">> THEN <<"casa">> ELSE word
        first(n) == \A m \in 1..(n - 1) : lower(pairs[m][1]) # lower(pairs[n][1])
        kept == {n \in DOMAIN pairs : first(n)}
    IN  [k \in 1..Cardinality(kept) |->
            pairs[CHOOSE n \in kept : Cardinality({m \in kept : m <= n}) = k]]
remove_duplicates(pairs) == unique_from(pairs, {}, <<>>)

load_word_list(lines) == remove_duplicates(word_flag_pairs_of(lines))

ParseInit ==
    /\ BuildIdle
    /\ RateIdle
    /\ ThrottleIdle
    /\ LoadIdle
    /\ ScrapeIdle
    /\ FetchIdle
    /\ file_lines \in Files
    /\ unique_pairs = <<>>
    /\ lw_pc = "open"

\* builder.load_word_list(word_list_file) on an existing file
LoadWordList ==
    /\ lw_pc = "open"
    /\ unique_pairs' = load_word_list(file_lines)
    /\ lw_pc' = "returned"
    /\ UNCHANGED <<offParse, file_lines>>

ParseNext == LoadWordList
SpecParse == ParseInit /\ [][ParseNext]_vars

----------------------------------------------------------------------------
(* load_progress on stored records that lack fields (SpecLoad) *)

\* the keys save_progress writes
ProgressFields ==
    {"translations", "processed_words", "problematic_words", "results_count"}
\* the decoded records: any subset of the keys, each present key with one of
\* a few values (a key that is absent has no value: it is kept at the value
\* of NoData)
StoredRecords ==
    {d \in [keys : SUBSET ProgressFields,
            translations : {EmptyMap, Put(EmptyMap, "casa", "ko")},
            processed_words : {<<>>, <<"casa">>, <<"casa", "agua">>},
            problematic_words : {<<>>, <<"agua">>},
            results_count : {0, 1}] :
        \A f \in ProgressFields \ d.keys : d[f] = NoData[f]}

\* dict.get(key, default)
get(d, key, default) == IF key \in d.keys THEN d[key] ELSE default
\* the keys read with data[key]: a missing one raises KeyError
load_progress_indexing(d) ==
    IF {"translations", "processed_words", "problematic_words"} \subseteq d.keys
    THEN [raised |-> FALSE,
          translations |-> d.translations,
          processed_words |-> Range(d.processed_words),
          problematic_words |-> Range(d.problematic_words)]
    ELSE [FreshBuilder EXCEPT !.raised = TRUE]
\* the body of load_progress once json.load has returned: three fields are
\* assigned from data.get with {} and [] as defaults, the lists are turned
\* into sets; results_count is not read
load_progress(d) ==
    [raised |-> FALSE,
     translations |-> get(d, "translations", EmptyMap),
     processed_words |-> Range(get(d, "processed_words", <<>>)),
     problematic_words |-> Range(get(d, "problematic_words", <<>>))]

LoadInit ==
    /\ BuildIdle
    /\ RateIdle
    /\ ThrottleIdle
    /\ ParseIdle
    /\ ScrapeIdle
    /\ FetchIdle
    /\ data \in StoredRecords
    /\ ld_builder = FreshBuilder
    /\ ld_pc = "open"

\* builder.load_progress() on a new builder
LoadStored ==
    /\ ld_pc = "open"
    /\ ld_builder' = load_progress(data)
    /\ ld_pc' = "returned"
    /\ UNCHANGED <<offLoad, data>>

LoadNext == LoadStored
SpecLoad == LoadInit /\ [][LoadNext]_vars

----------------------------------------------------------------------------
(* getsentences of Scraping-Tools/Glosbe/main.py (SpecScrape) *)

\* the words read by getwordlist
wordlist == SubSeq(<<"casa", "agua", "xyz123">>, 1, MaxWords)

\* what checkflags can leave in the globals: -c, --na, --nd, --ns
OptionSets ==
    [comprehensivemode : BOOLEAN, audioenabled : BOOLEAN,
     definitionsenabled : BOOLEAN, sentencesenabled : BOOLEAN]

\* what the page of a word gives for each block of the loop body: the text
\* is there, the selectors find nothing, or the block raises
Pages ==
    [attributes : {"found", "raises"},
     audio : {"found", "absent", "raises"},
     translation : {"found", "absent", "raises"},
     sentences : {"found", "absent", "raises"}]

\* the blocks of the loop body in the order they run: the audio block only
\* with audioenabled, the other three always
Blocks(opt) ==
    IF opt.audioenabled
    THEN <<"attributes", "audio", "translation", "sentences">>
    ELSE <<"attributes", "translation", "sentences">>
\* a block ends the iteration by "continue" under comprehensivemode: every
\* except clause does, and so does the else branch of the audio block
Continues(page, block) ==
    \/ page[block] = "raises"
    \/ block = "audio" /\ page.audio = "absent"
\* the iteration is cut short and the word counted in skipppedwords
skipped(opt, page) ==
    /\ opt.comprehensivemode
    /\ \E n \in DOMAIN Blocks(opt) : Continues(page, Blocks(opt)[n])

\* the values of the locals when the row is written (the audio block raises
\* in open() or in the download, after audiourl was assigned)
audiourl_of(page) == IF page.audio = "absent" THEN "" ELSE "url"
translation_of(page) == IF page.translation = "found" THEN "text" ELSE ""
sentence_of(page) == IF page.sentences = "found" THEN "sentence" ELSE ""
\* the columns of a row after 'word', by the three enabled switches
Columns(opt) ==
    (IF opt.definitionsenabled THEN {"translation"} ELSE {})
    \cup (IF opt.audioenabled THEN {"audio_url"} ELSE {})
    \cup (IF opt.sentencesenabled
          THEN {"sentence_native", "sentence_target"} ELSE {})
\* datatowrite
datatowrite(word, opt, page) ==
    [c \in {"word"} \cup Columns(opt) |->
        CASE c = "word" -> word
          [] c = "translation" -> translation_of(page)
          [] c = "audio_url" -> audiourl_of(page)
          [] OTHER -> sentence_of(page)]

ScrapeInit ==
    /\ BuildIdle
    /\ RateIdle
    /\ ThrottleIdle
    /\ ParseIdle
    /\ LoadIdle
    /\ FetchIdle
    /\ options \in OptionSets
    /\ count = 0
    /\ output_csv = <<>>
    /\ savedwords = 0
    /\ skipppedwords = 0
    /\ sc_pc = "loop"

\* one iteration of "for word in wordlist[startpoint:]" whose page arrives
ScrapeWord ==
    /\ sc_pc = "loop" /\ count < Len(wordlist)
    /\ count' = count + 1
    /\ \E page \in Pages :
          IF skipped(options, page)
          THEN /\ skipppedwords' = skipppedwords + 1
               /\ UNCHANGED <<output_csv, savedwords>>
          ELSE /\ output_csv' =
                      Append(output_csv,
                             datatowrite(wordlist[count + 1], options, page))
               /\ savedwords' = savedwords + 1
               /\ UNCHANGED skipppedwords
    /\ UNCHANGED <<offScrape, options, sc_pc>>

\* an iteration that ends in "except ConnectionError" (the builtin): the
\* word is passed over and counted nowhere
ScrapeConnectionError ==
    /\ sc_pc = "loop" /\ count < Len(wordlist)
    /\ count' = count + 1
    /\ UNCHANGED <<offScrape, options, output_csv, savedwords, skipppedwords,
                   sc_pc>>

\* requests.get raises requests.exceptions.ConnectionError or another
\* RequestException, or the open of output.csv raises an OSError: not a
\* subclass of the builtin ConnectionError, it leaves getsentences and ends
\* the program
ScrapeRequestRaises ==
    /\ sc_pc = "loop" /\ count < Len(wordlist)
    /\ count' = count + 1
    /\ sc_pc' = "crashed"
    /\ UNCHANGED <<offScrape, options, output_csv, savedwords, skipppedwords>>

\* the loop is over: "Job completed. ... words saved, ... words skipped."
ScrapeCompleted ==
    /\ sc_pc = "loop" /\ count = Len(wordlist)
    /\ sc_pc' = "completed"
    /\ UNCHANGED <<offScrape, options, count, output_csv, savedwords,
                   skipppedwords>>

ScrapeNext ==
    \/ ScrapeWord
    \/ ScrapeConnectionError
    \/ ScrapeRequestRaises
    \/ ScrapeCompleted
SpecScrape == ScrapeInit /\ [][ScrapeNext]_vars

----------------------------------------------------------------------------
(* One call of GoogleTranslateClient.get_translation, attempt by attempt     *)
(* (SpecFetch)                                                               *)

FetchInit ==
    /\ BuildIdle
    /\ RateIdle
    /\ ThrottleIdle
    /\ ParseIdle
    /\ LoadIdle
    /\ ScrapeIdle
    /\ gt_answers \in ResponseSeqs
    /\ gt_attempt = 0
    /\ gt_requests = 0
    /\ gt_result = "pending"
    /\ gt_cause = "pending"

\* the call is left with this value
GtReturn(value, cause) ==
    /\ gt_result' = value
    /\ gt_cause' = cause
    /\ UNCHANGED gt_attempt
\* "continue": the next attempt, or the "return None" after the loop
GtContinue(cause) ==
    IF gt_attempt + 1 < max_retries
    THEN /\ gt_attempt' = gt_attempt + 1
         /\ UNCHANGED <<gt_result, gt_cause>>
    ELSE GtReturn(None, cause)

\* one pass of "for attempt in range(max_retries)": _rate_limit, the
\* request, and what the body does with the answer
GtAttempt ==
    /\ gt_result = "pending"
    /\ gt_requests' = gt_requests + 1
    /\ LET r == gt_answers[gt_attempt + 1] IN
          CASE r.kind = "429" -> GtContinue("429")
            [] r.kind = "text" -> GtReturn(r.text, "text")
            [] r.kind = "no_data" -> GtReturn(None, "no_data")
            [] r.kind = "request_error" -> GtContinue("request_error")
            [] r.kind = "parse_error" -> GtReturn(None, "parse_error")
            [] OTHER -> GtReturn(Raise, "other_error")
    /\ UNCHANGED <<offFetch, gt_answers>>

FetchNext == GtAttempt
SpecFetch == FetchInit /\ [][FetchNext]_vars

----------------------------------------------------------------------------
(* Properties of the runs (Spec) *)

AfterProcessWords == pc \in {"report", "yomichan", "done"}
Checkpoint == progress_json.state = "complete"
NumBatches(pairs) == (Len(pairs) + batch_size - 1) \div batch_size
Terms(bank) == {e.term : e \in bank.entries}

PrioritizedRetry ==
    (builder = "google" /\ AfterProcessWords) =>
        /\ loaded.problematic \cap WordsOf(word_list_file)
               \subseteq Range(dispatched)
        /\ \A n, m \in DOMAIN dispatched :
               (dispatched[n] \in loaded.problematic
                /\ dispatched[m] \notin loaded.processed
                /\ dispatched[m] \notin loaded.problematic) => n < m

\* C3: at the end of a run of the Google main, save_yomichan has been called
\* once and the artifact has exactly one entry per word of the accumulated
\* translations that is in the word list.
FullArtifact ==
    (builder = "google" /\ pc = "done") =>
        /\ yomichan_calls = 1
        /\ term_bank.written
        /\ Terms(term_bank) = (DOMAIN translations) \cap WordsOf(word_list_file)
        /\ Cardinality(term_bank.entries) = Cardinality(Terms(term_bank))

\* C4: in every checkpoint the words with a translation are processed and
\* none of them is problematic.
CheckpointConsistent ==
    Checkpoint =>
        /\ DOMAIN progress_json.translations
               \subseteq Range(progress_json.processed_words)
        /\ Range(progress_json.problematic_words)
               \cap DOMAIN progress_json.translations = {}
\* a checkpoint of a resumed run holding successes and failures
CheckpointConsistentWitness ==
    /\ Checkpoint /\ run = 2 /\ saves > 0
    /\ loaded.processed # {}
    /\ builder = "google"
    /\ DOMAIN progress_json.translations # {}
    /\ progress_json.problematic_words # <<>>
    /\ Len(progress_json.processed_words) > Cardinality(loaded.processed)

\* C5: in every checkpoint the processed words are exactly the words with a
\* translation together with the problematic words.
ProcessedIsUnion ==
    Checkpoint =>
        Range(progress_json.processed_words) =
            (DOMAIN progress_json.translations)
            \cup Range(progress_json.problematic_words)
\* a checkpoint of the Glosbe builder with a success and a failure in it
ProcessedIsUnionWitness ==
    /\ Checkpoint /\ builder = "glosbe"
    /\ DOMAIN progress_json.translations # {}
    /\ progress_json.problematic_words # <<>>
    /\ Len(progress_json.processed_words) = Cardinality(Keys)

\* C6: while tasks of the slice at offset i are in the pool, the checkpoints
\* of all earlier slices have been written in full and hold every word of
\* those slices; no task of another slice is in the pool; and when
\* process_words has returned, one checkpoint per slice has been written.
BatchOrdering ==
    /\ pc \in {"batch", "collect"} =>
          /\ saves = i \div batch_size
          /\ i > 0 => Checkpoint
          /\ \A n \in 1..i :
                 words_to_process[n][1] \in Range(progress_json.processed_words)
          /\ DOMAIN futures \subseteq WordsOf(Batch(words_to_process, i))
    /\ pc \notin {"collect"} => futures = EmptyMap
    /\ AfterProcessWords => saves = NumBatches(words_to_process)
\* tasks of the second slice are in the pool
BatchOrderingWitness ==
    /\ pc = "collect" /\ i > 0
    /\ \E w \in DOMAIN futures : futures[w] = "running"

\* C7: after a kill, no kill having hit an open save, progress.json is
\* absent or parses, and its processed words are exactly the words of the
\* slices whose checkpoint was written.
CrashBetweenBatches ==
    (pc = "killed" /\ ~torn) =>
        /\ progress_json.state \in {"absent", "complete"}
        /\ Range(progress_json.processed_words) = completed_keys
\* killed with a checkpoint on disk and a fetched word of an unfinished slice
CrashBetweenBatchesWitness ==
    /\ pc = "killed" /\ ~torn /\ saves > 0
    /\ \E w \in Keys : fetch_count[w] > 0 /\ w \notin completed_keys

\* C8: a kill never leaves progress.json truncated: the file is absent or a
\* complete snapshot.
AtomicSave ==
    pc = "killed" => progress_json.state \in {"absent", "complete"}

\* C9: load_progress never raises, and with no progress.json it leaves the
\* builder empty.
LoadNeverFails ==
    /\ ~load_raised
    /\ pc # "crashed"
    /\ (pc = "load_word_list" /\ progress_json.state = "absent") =>
           /\ translations = EmptyMap
           /\ processed_words = {}
           /\ problematic_words = {}

----------------------------------------------------------------------------
(* Properties of the rate limiter (SpecRate) *)

\* C10: consecutive grants of _rate_limit are at least min_request_interval
\* apart, so the grants made so far span at least (M - 1) intervals.
RateFloor ==
    /\ \A n \in 1..(Len(grants) - 1) :
           grants[n + 1] - grants[n] >= min_request_interval
    /\ Len(grants) >= 1 =>
           grants[Len(grants)] - grants[1]
               >= (Len(grants) - 1) * min_request_interval
\* three grants, the second one made after a sleep while another thread
\* waited for the lock
RateFloorWitness ==
    /\ Len(grants) >= 3
    /\ grants[2] - grants[1] = min_request_interval
    /\ request_count = Len(grants)

\* C11: in GlosbeClient._rate_limit one thread at a time is between reading
\* last_request_time and updating it, and consecutive grants are at least
\* min_request_interval apart.
GlosbeRateLimitSerialized ==
    client = "glosbe" =>
        /\ Cardinality({w \in Workers :
               rl_pc[w] \in {"locked", "sleeping", "stamp"}}) <= 1
        /\ \A n \in 1..(Len(grants) - 1) :
               grants[n + 1] - grants[n] >= glosbe_min_request_interval


\* C12: a key whose process_word call returned nothing or raised aborts
\* neither its batch nor the run: no future of the Google builder holds an
\* exception, at the batch's checkpoint every key of the batch is in
\* processed_words, every key that succeeded is in translations and not in
\* problematic_words, and every key that failed is in problematic_words and
\* not in translations.
FailureIsolation ==
    builder = "google" =>
        /\ \A w \in DOMAIN futures : futures[w] # Raise
        /\ pc = "save_open" =>
               WordsOf(Batch(words_to_process, i)) \subseteq processed_words
        /\ \A w \in DOMAIN outcome_of \cap processed_words :
               IF Succeeded(outcome_of[w].value)
               THEN w \in DOMAIN translations /\ w \notin problematic_words
               ELSE w \in problematic_words /\ w \notin DOMAIN translations
\* a batch at its checkpoint in which one call raised inside get_translation
\* and another call succeeded
FailureIsolationWitness ==
    /\ builder = "google"
    /\ pc = "save_open"
    /\ \E w \in DOMAIN outcome_of \cap WordsOf(Batch(words_to_process, i)) :
           outcome_of[w].raised /\ w \in problematic_words
    /\ \E w \in DOMAIN outcome_of \cap WordsOf(Batch(words_to_process, i)) :
           Succeeded(outcome_of[w].value) /\ w \in DOMAIN translations

\* C13: a key of the Google builder whose requests were all answered with
\* 429 is not recorded as failed: once it is in processed_words it is not in
\* problematic_words.
ThrottlingNotFailure ==
    builder = "google" =>
        \A w \in DOMAIN outcome_of \cap processed_words :
            outcome_of[w].throttled => w \notin problematic_words

\* C18: once save_progress has raised in a run, the run is over with that
\* error: it is in no other state than crashed, no word beyond the slices up
\* to the failed checkpoint was dispatched, and neither the report nor the
\* term bank is written afterwards.
StoreFailureFatal ==
    save_failed = run =>
        /\ pc = "crashed"
        /\ Range(dispatched) \subseteq WordsOf(Consumed(words_to_process, i))
        /\ report_calls = 0 /\ yomichan_calls = 0
\* a save that failed while a later slice was still to come
StoreFailureFatalWitness ==
    /\ save_failed = run /\ pc = "crashed"
    /\ dispatched # <<>>
    /\ i + batch_size < Len(words_to_process)

\* the run is over: main() returned, or save_progress raised
RunEnded == pc = "done" \/ (pc = "crashed" /\ save_failed = run)
\* save_problematic_words ran in this run, the report lists exactly
\* problematic_words, and the summary with the three counts was logged
ReportAndSummary ==
    /\ report_calls >= 1
    /\ problematic_txt.written
    /\ problematic_txt.lines = problematic_words
    /\ summary = final_summary(translations, processed_words,
                               problematic_words)

RotationBeforePrompt ==
    [][\A w \in Workers :
          /\ (th_pc'[w] = "prompt" /\ vpn_available) => th_switched'[w]
          /\ (th_pc[w] = "vpn" /\ th_pc'[w] \notin {"vpn", "prompt"}) =>
                 rate_limit_hits' = 0]_vars

\* C16: no call of get_translation gives its key up while recovering from a
\* 429: every path through _handle_rate_limit ends with the request issued
\* again.
TerminalFallback ==
    \A w \in Workers : th_result[w] # "gave_up"

\* C17: at most one worker at a time is inside the ladder of waits and
\* probes of _handle_rate_limit.
OneLadderPerEpisode ==
    Cardinality({w \in Workers : th_pc[w] = "ladder"}) <= 1

\* the text between the first and the last non-blank token
Trimmed(t) ==
    LET solid == {n \in DOMAIN t : t[n] # Space}
    IN  IF solid = {} THEN <<>>
        ELSE SubSeq(t, CHOOSE n \in solid : \A m \in solid : n <= m,
                       CHOOSE n \in solid : \A m \in solid : m <= n)
\* a line that, blanks aside, is not empty and does not begin with '#'
IsEntryLine(line) == Trimmed(line) # <<>> /\ Trimmed(line)[1] # "#"
EntryLines(lines) == SelectSeq(lines, IsEntryLine)
FirstBar(line) ==
    CHOOSE n \in DOMAIN line :
        line[n] = "|" /\ \A m \in 1..(n - 1) : line[m] # "|"
\* the trimmed key and the trimmed metadata of an entry line
KeyOf(line) ==
    IF "|" \in Range(line)
    THEN Trimmed(SubSeq(line, 1, FirstBar(line) - 1))
    ELSE Trimmed(line)
MetadataOf(line) ==
    IF "|" \in Range(line)
    THEN Trimmed(SubSeq(line, FirstBar(line) + 1, Len(line)))
    ELSE <<>>
ExampleFile ==
    << <<"casa", "|", "n">>, <<"xyz123">>, <<"#", "comment">>,
       <<"agua", "|", "n">> >>
ExampleKeys == << <<"casa">>, <<"xyz123">>, <<"agua">> >>
KeysOf(pairs) == [n \in DOMAIN pairs |-> pairs[n][1]]
\* the entry lines on which a key stands for the first time
FirstEntries(lines) ==
    LET e == EntryLines(lines)
    IN  {n \in DOMAIN e : \A m \in 1..(n - 1) : KeyOf(e[m]) # KeyOf(e[n])}

\* C19 as stated: load_word_list returns one pair per entry line, in file
\* order, each the trimmed key and the trimmed metadata of its line; the
\* example file gives the keys casa, xyz123, agua.
InputParsing ==
    lw_pc = "returned" =>
        LET e == EntryLines(file_lines) IN
        /\ Len(unique_pairs) = Len(e)
        /\ \A n \in DOMAIN e :
               unique_pairs[n] = <<KeyOf(e[n]), MetadataOf(e[n])>>
        /\ file_lines = ExampleFile => KeysOf(unique_pairs) = ExampleKeys
\* C19: load_word_list returns one pair per entry line whose key stands on
\* no earlier entry line, in file order, each the trimmed key and the
\* trimmed metadata of its line; the example file gives the keys casa,
\* xyz123, agua.
InputParsingUnique ==
    lw_pc = "returned" =>
        LET e == EntryLines(file_lines)
            firsts == FirstEntries(file_lines)
        IN
        /\ Len(unique_pairs) = Cardinality(firsts)
        /\ \A n \in firsts :
               \E k \in DOMAIN unique_pairs :
                  /\ unique_pairs[k] = <<KeyOf(e[n]), MetadataOf(e[n])>>
                  /\ k = Cardinality({m \in firsts : m <= n})
        /\ file_lines = ExampleFile => KeysOf(unique_pairs) = ExampleKeys
\* a file with a comment, a separator and a key that stands on two lines
InputParsingUniqueWitness ==
    /\ lw_pc = "returned"
    /\ Len(unique_pairs) < Len(EntryLines(file_lines))
    /\ Len(EntryLines(file_lines)) < Len(file_lines)
    /\ \E n \in DOMAIN unique_pairs : unique_pairs[n][2] # <<>>

\* the run is over and no failing save_progress stopped it
RunOver ==
    pc \in {"done", "exited"} \/ (pc = "crashed" /\ save_failed # run)
\* nothing was dispatched and no file was written in this run
NothingDone ==
    /\ dispatched = <<>>
    /\ saves = 0 /\ report_calls = 0 /\ yomichan_calls = 0

\* C21: a run that is over (and was not stopped by a failing save, which is
\* fatal by C18) has, when the word list file was not found, ended with a
\* non-zero exit code and nothing dispatched or written, and has in every
\* other case completed and logged the summary counts.
ExitBehavior ==
    RunOver =>
        IF word_list_found
        THEN /\ pc = "done"
             /\ summary = final_summary(translations, processed_words,
                                        problematic_words)
        ELSE pc \in {"exited", "crashed"} /\ NothingDone

\* C22: no key is submitted to the pool twice in a run: the list handed to
\* process_words holds every key once, and so do the submissions of the run,
\* hence process_word never runs for one key in two workers at a time.
OneFetchPerKey ==
    /\ \A a, b \in DOMAIN words_to_process :
           a # b => words_to_process[a][1] # words_to_process[b][1]
    /\ \A a, b \in DOMAIN dispatched : a # b => dispatched[a] # dispatched[b]
    /\ Running(futures) \subseteq Range(dispatched)
\* two workers inside process_word at the same time
OneFetchPerKeyWitness ==
    /\ pc = "collect"
    /\ Cardinality(Running(futures)) >= 2
    /\ Len(dispatched) >= 2

\* C23: every key in problematic_words or translations was put there by
\* load_progress or by the coordinating thread when it recorded the key's
\* outcome (which marks the key processed in the same step): no worker task
\* writes the shared collections.
SingleWriter ==
    /\ problematic_words \subseteq loaded.problematic \cup processed_words
    /\ DOMAIN translations \subseteq processed_words

\* C24: a run stopped while a batch was in flight has the outcomes of every
\* key it dispatched in the checkpoint.
CooperativeStop ==
    pc = "interrupted" => Range(dispatched) \subseteq completed_keys

\* C25: no exception of the VPN commands leaves _switch_vpn_location: no
\* call of get_translation ends because the rotation raised.
RotationNeverRaises ==
    \A w \in Workers : th_result[w] # "rotation_raised"

\* C29: a handler has slept 60, 120, 240 seconds in that order, never more
\* than three times, and has sent one probe after each sleep; it reaches the
\* VPN switch or the prompt only after all three sleeps and probes.
BackoffLadder ==
    \A w \in Workers :
        /\ Len(th_waits[w]) <= 3
        /\ th_waits[w] = SubSeq(<<60, 120, 240>>, 1, Len(th_waits[w]))
        /\ th_probes[w] = Len(th_waits[w])
        /\ th_pc[w] = "ladder" => Len(th_waits[w]) = th_attempt[w]
        /\ th_pc[w] \in {"vpn", "prompt"} => th_waits[w] = <<60, 120, 240>>
\* a handler whose three probes failed
BackoffLadderWitness ==
    \E w \in Workers :
        /\ th_pc[w] \in {"vpn", "prompt"}
        /\ th_waits[w] = <<60, 120, 240>> /\ th_probes[w] = 3

\* C30: no worker sends a request while the recovery of another worker is
\* under way.
FreezeDuringRecovery ==
    [][\A w \in Workers :
          (th_pc[w] # "request" /\ th_pc'[w] = "request") =>
              \A v \in Workers \ {w} :
                  th_pc[v] \notin {"ladder", "vpn", "prompt"}]_vars

\* C26: load_progress on a record that lacks any subset of translations,
\* processed_words, problematic_words, results_count does not raise; after
\* it each of the builder's three fields holds the stored value if the key
\* is there (the lists as sets) and is empty if it is not. results_count has
\* no field in the builder: present or absent, it changes nothing.
ForwardCompatibleLoad ==
    (ld_pc = "returned" /\ data \in StoredRecords) =>
        /\ ~ld_builder.raised
        /\ ld_builder.translations =
               IF "translations" \in data.keys
               THEN data.translations ELSE EmptyMap
        /\ \A w \in Keys :
               /\ w \in ld_builder.processed_words <=>
                      /\ "processed_words" \in data.keys
                      /\ \E n \in DOMAIN data.processed_words :
                             data.processed_words[n] = w
               /\ w \in ld_builder.problematic_words <=>
                      /\ "problematic_words" \in data.keys
                      /\ \E n \in DOMAIN data.problematic_words :
                             data.problematic_words[n] = w
        /\ ld_builder.processed_words \subseteq Keys
        /\ ld_builder.problematic_words \subseteq Keys
\* a record with processed_words only has been loaded
ForwardCompatibleLoadWitness ==
    /\ ld_pc = "returned"
    /\ data.keys = {"processed_words"}
    /\ data.processed_words = <<"casa", "agua">>
    /\ ld_builder.processed_words = {"casa", "agua"}

\* C27: every entry of the term bank carries the flags the word list gives
\* for its term, whether results came from process_words (fresh run) or from
\* the stored translations (resumed run with nothing left to process).
MetadataPassThrough ==
    \A e \in term_bank.entries :
        /\ e.term \in WordsOf(word_list_file)
        /\ \E n \in DOMAIN word_list_file :
               word_list_file[n] = <<e.term, e.flags>>
        /\ e.has_flags = (e.flags # "")
\* a resumed run with nothing left to fetch has written an entry with the
\* flags of a word that a run before it fetched
MetadataPassThroughWitness ==
    /\ pc = "done" /\ run = 2 /\ dispatched = <<>>
    /\ \E e \in term_bank.entries : e.flags = "n"

\* C28: with -c, every row written to output.csv has a non-empty value in
\* every enabled column: no word with a missing enabled field is written.
ComprehensiveMode ==
    options.comprehensivemode =>
        \A n \in DOMAIN output_csv :
            \A c \in DOMAIN output_csv[n] : output_csv[n][c] # ""

\* a step of a run after load_progress, the process still alive after it
StepOfRun ==
    /\ pc \notin {"start", "done", "killed", "crashed", "exited", "interrupted"}
    /\ pc' \notin {"start", "killed", "interrupted"}
\* C31: over every step of a run after load_progress, processed_words and
\* the keys of translations only grow, the payload of a key in translations
\* stays as it is, and a key that is not in the word list stays in or out of
\* processed_words, translations and problematic_words as it was loaded.
MonotonicState ==
    [][StepOfRun =>
          /\ processed_words \subseteq processed_words'
          /\ \A w \in DOMAIN translations :
                 w \in DOMAIN translations' /\ translations'[w] = translations[w]
          /\ \A w \in Keys \ WordsOf(word_list_file) :
                 /\ (w \in processed_words) = (w \in processed_words')
                 /\ (w \in DOMAIN translations) = (w \in DOMAIN translations')
                 /\ (w \in problematic_words) = (w \in problematic_words')]_vars
\* a resumed run has recorded a word of the list next to the loaded key that
\* the list no longer holds
MonotonicStateWitness ==
    /\ pc \in {"collect", "save_open"}
    /\ RemovedKey \in processed_words
    /\ RemovedKey \in (DOMAIN translations) \cup problematic_words
    /\ processed_words \cap WordsOf(word_list_file) # {}
    /\ (DOMAIN translations) \cap WordsOf(word_list_file) # {}

\* the keys dispatched so far whose fixed outcome is a translation
SucceededKeys ==
    {w \in Range(dispatched) : Succeeded(outcome_of[w].value)}
\* C32: at the checkpoint of a batch the state and the returned results are
\* a function of the outcomes of the keys alone, whatever the order in which
\* the workers completed and were collected: processed_words is what was
\* loaded plus the dispatched keys, translations and results hold exactly
\* the dispatched keys that succeeded, each with its outcome (and flags),
\* and problematic_words is what was loaded changed by the outcomes.
ArrivalOrderIndependence ==
    pc \in {"save_open", "save_dump"} =>
        /\ processed_words = loaded.processed \cup Range(dispatched)
        /\ DOMAIN results = SucceededKeys
        /\ (DOMAIN translations) \cap Range(dispatched) = SucceededKeys
        /\ \A w \in SucceededKeys :
               /\ translations[w] = outcome_of[w].value
               /\ results[w] = <<outcome_of[w].value,
                                 FlagsOf(word_list_file, w)>>
        /\ problematic_words =
               IF builder = "google"
               THEN (loaded.problematic \ SucceededKeys)
                    \cup (Range(dispatched) \ SucceededKeys)
               ELSE loaded.problematic
                    \cup {w \in Range(dispatched) :
                              outcome_of[w].value \in {None, Raise}}
\* the checkpoint of a batch of two keys, one translated and one not
ArrivalOrderIndependenceWitness ==
    /\ pc = "save_open"
    /\ Len(dispatched) >= 2
    /\ SucceededKeys # {} /\ SucceededKeys # Range(dispatched)

\* process_words has been called and has not returned
InProcessWords == pc \in {"batch", "collect", "save_open", "save_dump"}
\* C33: in a run where every call of the connector returns, process_words
\* returns, and when it has returned every key of its input list is in
\* processed_words and one checkpoint per batch has been written.
TerminationAndCoverage ==
    /\ InProcessWords ~> AfterProcessWords
    /\ [](AfterProcessWords =>
             /\ WordsOf(words_to_process) \subseteq processed_words
             /\ saves = NumBatches(words_to_process))
\* process_words has returned after two batches
TerminationAndCoverageWitness ==
    /\ pc = "report" /\ report_calls = 0
    /\ NumBatches(words_to_process) >= 2
    /\ saves = NumBatches(words_to_process)
    /\ WordsOf(words_to_process) \subseteq processed_words

\* C34: a call of get_translation that ends on a network failure or on a
\* parse failure has made max_retries attempts, and no call sends more than
\* max_retries requests.
ConnectorLocalRetries ==
    /\ gt_requests <= max_retries
    /\ gt_cause \in {"request_error", "parse_error"} =>
           gt_requests = max_retries

\* C35: every request to an endpoint comes after a _rate_limit of its own,
\* which has counted it: the requests sent never exceed request_count.
RateGatedRequests ==
    requests_sent <= request_count

\* json.load on a progress.json that save_progress has written in full: all
\* four keys are there
DataOf(file) ==
    [keys |-> ProgressFields, translations |-> file.translations,
     processed_words |-> file.processed_words,
     problematic_words |-> file.problematic_words,
     results_count |-> file.results_count]
\* the last save_progress of this run has returned and nothing was recorded
\* since
MemoryAsSaved ==
    /\ Checkpoint
    /\ \/ pc = "batch" /\ i > 0
       \/ AfterProcessWords /\ saves > 0
\* C36: load_progress of a new builder on the file that save_progress wrote
\* gives the translations, processed_words and problematic_words that the
\* saving builder held: the file holds the whole state.
CheckpointRoundTrip ==
    MemoryAsSaved =>
        load_progress(DataOf(progress_json)) =
            [raised |-> FALSE, translations |-> translations,
             processed_words |-> processed_words,
             problematic_words |-> problematic_words]
\* a checkpoint between two batches, with a translation and a failed word
CheckpointRoundTripWitness ==
    /\ pc = "batch" /\ i > 0 /\ Checkpoint
    /\ translations # EmptyMap
    /\ problematic_words # {}
    /\ Cardinality(processed_words) >= 2

\* the entry line on which the key of the k-th returned pair first stands
FirstLineOf(k) ==
    LET e == EntryLines(file_lines)
    IN  CHOOSE n \in DOMAIN e :
            /\ KeyOf(e[n]) = unique_pairs[k][1]
            /\ \A m \in 1..(n - 1) : KeyOf(e[m]) # unique_pairs[k][1]
\* C37: load_word_list returns every key of the file once and no key
\* twice, keys being equal only when their trimmed texts are the same (casa
\* and Casa are two keys); each returned key carries the metadata of the
\* first line it stands on, and the keys are in the order of those lines.
KeyUniqueness ==
    lw_pc = "returned" =>
        LET e == EntryLines(file_lines) IN
        /\ \A a, b \in DOMAIN unique_pairs :
               a # b => unique_pairs[a][1] # unique_pairs[b][1]
        /\ Range(KeysOf(unique_pairs)) = {KeyOf(e[n]) : n \in DOMAIN e}
        /\ \A k \in DOMAIN unique_pairs :
               unique_pairs[k][2] = MetadataOf(e[FirstLineOf(k)])
        /\ \A a, b \in DOMAIN unique_pairs :
               a < b => FirstLineOf(a) < FirstLineOf(b)
\* casa stands on two lines with different metadata, Casa on a third, and
\* both keys are returned
KeyUniquenessWitness ==
    /\ lw_pc = "returned"
    /\ {<<"casa">>, <<"Casa">>} \subseteq Range(KeysOf(unique_pairs))
    /\ \E n, m \in DOMAIN file_lines :
           /\ n < m
           /\ KeyOf(file_lines[n]) = <<"casa">>
           /\ KeyOf(file_lines[m]) = <<"casa">>
           /\ MetadataOf(file_lines[n]) # MetadataOf(file_lines[m])

\* C38: under SpecRateFair every thread that has called _rate_limit of the
\* Google client, whether it waits for the lock, sleeps with the lock held
\* or is past the sleep, eventually returns from the call.
RateLimiterLiveness ==
    \A w \in Workers : (rl_pc[w] # "idle") ~> (rl_pc[w] = "idle")
\* a thread waits for the lock while the thread that holds it sleeps
RateLimiterLivenessWitness ==
    \E w, v \in Workers :
        /\ rl_pc[w] = "waiting"
        /\ rl_pc[v] = "sleeping" /\ lock = v

\* C39: whatever failed on a word, getsentences leaves its loop only at the
\* end of the word list, every word from the start point requested, and
\* with the job-completed summary printed.
ScraperFailureIsolation ==
    sc_pc # "loop" => sc_pc = "completed" /\ count = Len(wordlist)
====
